---- MODULE Spec2Model ----
(***************************************************************************)
(* StatisticsLogger (src/app/src/main/core/statisticsLogger.ts): a         *)
(* store-and-forward logger.  log() enqueues events; a dispatch timer pops *)
(* one event per tick and sends it to the server when the cached           *)
(* connectivity flag is true, or writes it to a backlog file otherwise;    *)
(* backlog files are reloaded when a connected tick finds                  *)
(* lastInternetConnectedFlag false.                                        *)
(*                                                                         *)
(* Every await of the source is an interleaving point: a dispatch tick     *)
(* that awaits I/O is kept in the bag ticks with its position (pc), and    *)
(* the completion of the awaited operation is a separate action.           *)
(***************************************************************************)
EXTENDS Naturals, Sequences, FiniteSets, Bags, TLC

\* ------------------------------------------------------------------ bounds
\* Date.now() readings taken by log(): the number of events ever accepted.
MaxDate == 2
\* Dispatch-tick callbacks that may be awaiting I/O at the same time.
MaxTicks == 2

\* --------------------------------------------------------------- constants
DefaultNetworkCheckInterval == 1000
DefaultLogCheckInterval == 1000
LOG_EXTENSION == ".ehl"

\* os.type() of the host, constant for the life of the process.
defaultLoggerInfo == [osType |-> "Linux"]

VARIABLES
    defaultOptions,           \* the module-level object of line 25
    options,                  \* this.options
    logQueue,                 \* this.logQueue
    isInternetConnected,      \* this.isInternetConnected
    lastInternetConnectedFlag,\* this.lastInternetConnectedFlag
    connectionCheckInterval,  \* this.connectionCheckInterval (0: undefined)
    queueCheckInterval,       \* this.queueCheckInterval (0: undefined)
    timers,                   \* the intervals the event loop still fires
    probes,                   \* whether isInternetConnected() calls may be
                              \* pending: the code does not bound how many
                              \* overlap, so they are not counted
    ticks,                    \* dispatch callbacks awaiting I/O (a bag)
    disk,                     \* the files of the backlog directory
    now,                      \* Date.now(), advanced by every reading
    accepted,                 \* history: events pushed by log()
    sinkLog,                  \* history: requests the server answered
    sinkErrors,               \* history: events whose latest request failed
    writeErrors,              \* history: events whose writeFile failed
    backlogAtReconnect,       \* history: the log files still on disk that
                              \* were there when the flag last went from
                              \* false to true
    thrown,                   \* the error the last public call threw, or "none"
    lastCall,                 \* history: the last public call and its argument,
                              \* kept where the calls are what is examined
    lastCallback,             \* history: the timer callback that ran last and
                              \* what it met, kept where the callbacks are
                              \* what is examined
    reconciliations           \* history: loadLogFiles calls since the last
                              \* tick that read the connectivity flag false,
                              \* kept with lastCallback

config == <<defaultOptions, options>>
handles == <<connectionCheckInterval, queueCheckInterval, timers>>
flags == <<isInternetConnected, lastInternetConnectedFlag>>
io == <<sinkLog, sinkErrors, writeErrors>>
observed == <<lastCallback, reconciliations>>
history == <<accepted, sinkLog, sinkErrors, writeErrors, backlogAtReconnect>>
vars == <<defaultOptions, options, logQueue, isInternetConnected,
          lastInternetConnectedFlag, connectionCheckInterval,
          queueCheckInterval, timers, probes, ticks, disk, now, accepted,
          sinkLog, sinkErrors, writeErrors, backlogAtReconnect, thrown, lastCall, observed>>

\* ------------------------------------------------------------- JS values
EmptyMap == [k \in {} |-> ""]
\* an absent optional property (value?: ...) and a present object
Undefined == [defined |-> FALSE, attrs |-> EmptyMap]
Attrs(m) == [defined |-> TRUE, attrs |-> m]
\* an Error instance, and what JSON.stringify makes of it
ErrorObject == "Error"
EmptyObject == "{}"

\* { action, value, date: Date.now(), ...this.defaultLoggerInfo }
LogObject(action, value, date) ==
    [action |-> action, value |-> value, date |-> date,
     osType |-> defaultLoggerInfo.osType]

\* A public call as lastCall records it: the method, its argument, and how
\* many intervals were live when it was made.
Call(op, arg) == [op |-> op, arg |-> arg, live |-> Cardinality(timers)]

\* ----------------------------------------------------------- configuration
NoOptions == [k \in {} |-> 0]
Present(o, k) == k \in DOMAIN o
\* !nextOptions.logPath: the property is missing or the empty string
Falsy(o, k) == ~Present(o, k) \/ o[k] = ""

\* Inputs of setOptions: each property supplied or left out.
Restrict(o, ks) == [k \in ks |-> o[k]]
FullOptions ==
    [logPath |-> "/tmp/x", serverUrl |-> "http://example",
     networkCheckInterval |-> 500, logCheckInterval |-> 250]
BaseOptions == Restrict(FullOptions, {"logPath", "serverUrl"})
NextOptionsInputs ==
    {Restrict(FullOptions, ks) : ks \in SUBSET DOMAIN FullOptions}
        \cup {[logPath |-> "", serverUrl |-> "http://example"]}

\* Object.assign(target, source): copies source's own properties onto the
\* target object itself and returns that same object.
ObjectAssign(target, source) ==
    [k \in DOMAIN target \cup DOMAIN source |->
        IF k \in DOMAIN source THEN source[k] ELSE target[k]]

ChecksLogPathOnly(nextOptions) == Falsy(nextOptions, "logPath")
SetOptionsThrows(nextOptions) ==
    Falsy(nextOptions, "logPath") \/ Falsy(nextOptions, "serverUrl")
SetOptionsError(nextOptions) ==
    IF Falsy(nextOptions, "logPath") THEN "logPath property must be presented"
    ELSE "server url must be presented"

\* setOptions, lines 53-65
setOptions(nextOptions) ==
    /\ IF SetOptionsThrows(nextOptions)
       THEN /\ thrown' = SetOptionsError(nextOptions)
            /\ UNCHANGED config
       ELSE /\ defaultOptions' = ObjectAssign(defaultOptions, nextOptions)
            /\ options' = defaultOptions'
            /\ thrown' = "none"
    /\ UNCHANGED <<logQueue, flags, handles, probes, ticks, disk, now, history>>

\* a call with any of the inputs, and the call the engine is configured with
SetOptionsAny ==
    \E nextOptions \in NextOptionsInputs :
        /\ setOptions(nextOptions)
        /\ lastCall' = Call("setOptions", nextOptions)
        /\ UNCHANGED observed
SetOptions == setOptions(BaseOptions) /\ UNCHANGED <<lastCall, observed>>

\* ------------------------------------------------------------------ timers
TimerIds(ts) == {t.id : t \in ts}
\* setInterval returns a handle no live interval has; the least such number
\* stands for it (run overwrites both stored handles before anything can use
\* them, so a stale handle never meets a reused number)
FreshTimer(ts) ==
    CHOOSE n \in 1..(Cardinality(ts) + 1) :
        /\ n \notin TimerIds(ts)
        /\ \A m \in 1..(n - 1) : m \in TimerIds(ts)
\* clearInterval(handle); clearInterval(undefined) does nothing
ClearInterval(ts, handle) == {t \in ts : t.id # handle}
\* stop(), lines 80-83
StopProbeOnly(ts, conn, queue) == ClearInterval(ts, conn)
StopTimers(ts, conn, queue) == ClearInterval(ClearInterval(ts, conn), queue)
\* run(), lines 72-74: a restart stops the intervals of the stored handles
RunWithoutStop(ts, conn, queue) == ts
RunRestart(ts, conn, queue) ==
    IF queue # 0 \/ conn # 0 THEN StopTimers(ts, conn, queue) ELSE ts

ProbeTimers == {t \in timers : t.kind = "connection"}
QueueTimers == {t \in timers : t.kind = "queue"}

\* run, lines 67-78, with checkInternetConnected (106) and checkLoggerQueue (122)
runCall ==
    /\ IF options = NoOptions
       THEN /\ thrown' = "option is not defined"
            /\ UNCHANGED handles
       ELSE LET cleared == RunRestart(timers, connectionCheckInterval,
                                      queueCheckInterval)
                conn == FreshTimer(cleared)
                withConn == cleared \cup {[id |-> conn, kind |-> "connection"]}
                queue == FreshTimer(withConn)
            IN  /\ connectionCheckInterval' = conn
                /\ queueCheckInterval' = queue
                /\ timers' = withConn \cup {[id |-> queue, kind |-> "queue"]}
                /\ thrown' = "none"
    /\ UNCHANGED <<config, logQueue, flags, probes, ticks, disk, now, history>>

run == runCall /\ UNCHANGED <<lastCall, observed>>
RunTraced ==
    runCall /\ lastCall' = Call("run", NoOptions) /\ UNCHANGED observed

\* stop, lines 80-83
stopAborting ==
    /\ timers' = StopTimers(timers, connectionCheckInterval, queueCheckInterval)
    /\ thrown' = "none"
    /\ ticks' = EmptyBag
    /\ UNCHANGED <<connectionCheckInterval, queueCheckInterval>>
    /\ UNCHANGED <<config, logQueue, flags, probes, disk, now, history>>
stopCall ==
    /\ timers' = StopTimers(timers, connectionCheckInterval, queueCheckInterval)
    /\ thrown' = "none"
    /\ UNCHANGED <<connectionCheckInterval, queueCheckInterval>>
    /\ UNCHANGED <<config, logQueue, flags, probes, ticks, disk, now, history>>

stop == stopCall /\ UNCHANGED <<lastCall, observed>>
StopTraced ==
    stopCall /\ lastCall' = Call("stop", NoOptions) /\ UNCHANGED observed

\* --------------------------------------------------------------------- log
\* Inputs of the producers' log(action, value) calls.
ProducerActions == {"click"}
ProducerValues == {Undefined, Attrs([id |-> "7", action |-> "x"])}

\* this.options && this.logQueue.push({...}), lines 92-98
LogNoCheck(opts, queue, action, value, date) ==
    Append(queue, LogObject(action, value, date))
LogPush(opts, queue, action, value, date) ==
    IF opts # NoOptions THEN Append(queue, LogObject(action, value, date))
    ELSE queue

\* log, lines 91-99
log(action, value) ==
    /\ now < MaxDate
    /\ logQueue' = LogPush(options, logQueue, action, value, now + 1)
    /\ IF logQueue' # logQueue
       THEN /\ now' = now + 1
            /\ accepted' = accepted \cup {LogObject(action, value, now + 1)}
       ELSE UNCHANGED <<now, accepted>>
    /\ thrown' = "none"
    /\ UNCHANGED <<config, flags, handles, probes, ticks, disk, io,
                   backlogAtReconnect>>

Log == \E action \in ProducerActions, value \in ProducerValues :
           log(action, value) /\ UNCHANGED <<lastCall, observed>>
LogTraced == \E action \in ProducerActions, value \in ProducerValues :
                 /\ log(action, value)
                 /\ lastCall' = Call("log", NoOptions)
                 /\ UNCHANGED observed

\* ------------------------------------------------------ connectivity probe
\* the setInterval callback of checkInternetConnected, line 106, up to its await
ProbeTick ==
    /\ ProbeTimers # {}
    /\ probes' = TRUE
    /\ UNCHANGED <<config, logQueue, flags, handles, ticks, disk, now, history,
                   thrown, lastCall, observed>>

\* ------------------------------------------------------------ backlog files
\* File names: [base, ext].  crypto.randomBytes(20).toString('hex') is a name
\* nothing else has; the least unused number stands for it.
NoFile == [base |-> 0, ext |-> ""]
ToLowerCase(ext) == IF ext = ".EHL" THEN ".ehl" ELSE ext
\* path.extname(fileName).toLowerCase() === LOG_EXTENSION, line 154
IsLogFile(fileName) == ToLowerCase(fileName.ext) = LOG_EXTENSION
\* the files readdir returns that pass the filter of line 154
LogFiles(d) == {f \in DOMAIN d : IsLogFile(f)}

\* JSON.stringify(logObject), line 191: a property whose value is undefined
\* is left out; an Error has no enumerable property and becomes {}.
StringifyAttrs(m) ==
    [k \in DOMAIN m |-> IF m[k] = ErrorObject THEN EmptyObject ELSE m[k]]
JSONstringifyNoValue(obj) ==
    [kind |-> "json",
     text |-> [action |-> obj.action, date |-> obj.date, osType |-> obj.osType]]
JSONstringify(obj) ==
    [kind |-> "json",
     text |-> IF obj.value.defined
              THEN [action |-> obj.action, date |-> obj.date,
                    osType |-> obj.osType,
                    value |-> StringifyAttrs(obj.value.attrs)]
              ELSE [action |-> obj.action, date |-> obj.date,
                    osType |-> obj.osType]]
\* file contents that are no JSON text
Garbage == [kind |-> "garbage", text |-> EmptyMap]
\* JSON.parse(fileContent), line 159: throws on text that is no JSON
JSONparseThrows(content) == content.kind # "json"
JSONparse(content) ==
    [action |-> content.text.action, date |-> content.text.date,
     value |-> IF "value" \in DOMAIN content.text
               THEN Attrs(content.text.value) ELSE Undefined,
     osType |-> content.text.osType]

\* Files an earlier run of the program may have left in logPath, and a file
\* of another kind that shares the directory.
OldEvent == LogObject("boot", Undefined, 0)
OldFile == [base |-> 101, ext |-> ".EHL"]
CorruptFile == [base |-> 102, ext |-> ".ehl"]
OtherFile == [base |-> 103, ext |-> ".txt"]
Directory(fs) ==
    [f \in fs \cup {OtherFile} |->
        IF f = OldFile THEN JSONstringify(OldEvent) ELSE Garbage]

RemoveFile(d, f) == [g \in DOMAIN d \ {f} |-> d[g]]
WriteFile(d, f, content) ==
    [g \in DOMAIN d \cup {f} |-> IF g = f THEN content ELSE d[g]]

\* A timer callback as lastCallback records it: which callback, what it met,
\* and a bit that alternates so that two runs in a row differ.
Callback(kind, outcome) ==
    [kind |-> kind, outcome |-> outcome, turn |-> 1 - lastCallback.turn]

\* line 107: the awaited probe answers and the flag is overwritten
probeResolves ==
    /\ probes
    /\ UNCHANGED probes
    /\ \E result \in BOOLEAN :
        /\ isInternetConnected' = result
        /\ backlogAtReconnect' =
               IF ~result THEN {}
               ELSE IF ~isInternetConnected THEN LogFiles(disk)
               ELSE backlogAtReconnect
    /\ UNCHANGED <<config, logQueue, lastInternetConnectedFlag, handles, ticks,
                   disk, now, accepted, io, thrown, lastCall>>
ProbeDone == probeResolves /\ UNCHANGED observed
ProbeDoneTraced ==
    /\ probeResolves
    /\ lastCallback' = Callback("probe", "resolved")
    /\ UNCHANGED reconciliations

\* line 107: the awaited probe rejects; the assignment never runs, and the
\* promise of the async callback rejects with nothing to handle it
probeRejects ==
    /\ probes
    /\ UNCHANGED <<probes, config, logQueue, flags, handles, ticks, disk, now, history,
                   thrown, lastCall>>
ProbeReject == probeRejects /\ UNCHANGED observed
ProbeRejectTraced ==
    /\ probeRejects
    /\ lastCallback' = Callback("probe", "unhandled rejection")
    /\ UNCHANGED reconciliations

\* ----------------------------------------------------------- dispatch ticks
\* A tick awaiting I/O: pc names the await it is at.
\*   "readdir": fs.ensureDir / fs.readdir of loadLogFiles (149-150)
\*   "files":   Promise.all of the per-file handlers (152-168); reading holds
\*              the files whose readFile is pending, unlinking those whose
\*              unlink is pending
\*   "send":    axios.get of sendLogToServer (177)
\*   "write":   fs.writeFile of sendLogToFile (189)
\* logFiles is the filtered list of lines 153-154, which the tick holds while
\* the handlers run.
Tick(pc, obj, logFiles, reading, unlinking, fileName) ==
    [pc |-> pc, obj |-> obj, logFiles |-> logFiles, reading |-> reading,
     unlinking |-> unlinking, fileName |-> fileName]
InFlight == BagToSet(ticks)
One(t) == SetToBag({t})

UsedBases ==
    {f.base : f \in DOMAIN disk}
        \cup UNION {{f.base : f \in t.logFiles} : t \in InFlight}
        \cup {t.fileName.base : t \in InFlight}
FreshFile ==
    [base |-> CHOOSE n \in 1..(Cardinality(UsedBases) + 1) :
                  /\ n \notin UsedBases
                  /\ \A m \in 1..(n - 1) : m \in UsedBases,
     ext |-> LOG_EXTENSION]

\* { action, date, ...value }, line 178: a later property replaces an earlier
\* one of the same name
Spread(value) == IF value.defined THEN value.attrs ELSE EmptyMap
SinkParamsBare(obj) == [action |-> obj.action, date |-> obj.date]
SinkParams(obj) ==
    [k \in {"action", "date"} \cup DOMAIN Spread(obj.value) |->
        IF k \in DOMAIN Spread(obj.value) THEN Spread(obj.value)[k]
        ELSE IF k = "action" THEN obj.action ELSE obj.date]

\* the await a tick that popped obj reaches first, lines 126-140
RouteAlwaysSend(obj, connected, last) ==
    Tick("send", obj, {}, {}, {}, NoFile)
RouteNoReconcile(obj, connected, last) ==
    IF connected
    THEN Tick("send", obj, {}, {}, {}, NoFile)
    ELSE Tick("write", obj, {}, {}, {}, FreshFile)
Route(obj, connected, last) ==
    IF connected
    THEN IF ~last THEN Tick("readdir", obj, {}, {}, {}, NoFile)
         ELSE Tick("send", obj, {}, {}, {}, NoFile)
    ELSE Tick("write", obj, {}, {}, {}, FreshFile)

\* lines 125-136: the flag a tick leaves, which only a tick that popped an
\* event with connectivity false sets to false
MarkWithoutEvent(popped, connected, last) == IF connected THEN last ELSE FALSE
MarkDisconnected(popped, connected, last) ==
    IF popped /\ ~connected THEN FALSE ELSE last

\* the setInterval callback of checkLoggerQueue, lines 122-141, up to its
\* first await
checkLoggerQueueTick ==
    /\ QueueTimers # {}
    /\ IF logQueue = <<>>
       THEN UNCHANGED <<logQueue, ticks>>
       ELSE /\ BagCardinality(ticks) < MaxTicks
            /\ logQueue' = Tail(logQueue)
            /\ ticks' = ticks (+) One(Route(Head(logQueue), isInternetConnected,
                                            lastInternetConnectedFlag))
    /\ lastInternetConnectedFlag' =
           MarkDisconnected(logQueue # <<>>, isInternetConnected,
                            lastInternetConnectedFlag)
    /\ UNCHANGED <<config, isInternetConnected, handles, probes, disk, now,
                   history, thrown, lastCall>>
DispatchTick == checkLoggerQueueTick /\ UNCHANGED observed
\* loadLogFiles is called by a tick that popped an event and read the
\* connectivity flag true and lastInternetConnectedFlag false (lines 125-130)
DispatchTickTraced ==
    /\ checkLoggerQueueTick
    /\ lastCallback' =
           Callback("dispatch", IF logQueue = <<>> THEN "idle" ELSE "popped")
    /\ reconciliations' =
           IF logQueue = <<>> THEN reconciliations
           ELSE IF ~isInternetConnected THEN 0
           ELSE IF ~lastInternetConnectedFlag THEN reconciliations + 1
           ELSE reconciliations

\* ------------------------------------------------------------ loadLogFiles
\* Promise.all of line 152 resolves when no per-file handler is pending; the
\* tick then runs line 131 and starts sendLogToServer (line 134).
SettledEarly(t, logFiles, reading, unlinking) ==
    IF reading = {}
    THEN Tick("send", t.obj, {}, {}, {}, NoFile)
    ELSE Tick("files", t.obj, logFiles, reading, unlinking, NoFile)
Settled(t, logFiles, reading, unlinking) ==
    IF reading = {} /\ unlinking = {}
    THEN Tick("send", t.obj, {}, {}, {}, NoFile)
    ELSE Tick("files", t.obj, logFiles, reading, unlinking, NoFile)
Step(t, next) ==
    /\ ticks' = (ticks (-) One(t)) (+) One(next)
    /\ lastInternetConnectedFlag' =
           IF next.pc = "send" THEN TRUE ELSE lastInternetConnectedFlag

\* the catch of lines 162-166: this.log('unexpected', { error: e })
Unexpected == LogObject("unexpected", Attrs([error |-> ErrorObject]), now + 1)
Caught ==
    /\ now < MaxDate
    /\ logQueue' = LogPush(options, logQueue, "unexpected",
                           Attrs([error |-> ErrorObject]), now + 1)
    /\ now' = now + 1
    /\ accepted' = accepted \cup {Unexpected}
    /\ UNCHANGED <<io, backlogAtReconnect>>

\* lines 149-150 succeed: every log file gets its handler, which starts by
\* reading the file (lines 153-158)
ReaddirAt(t) ==
    /\ t.pc = "readdir"
    /\ Step(t, Settled(t, LogFiles(disk), LogFiles(disk), {}))
    /\ UNCHANGED <<config, logQueue, isInternetConnected, handles, probes,
                   disk, now, history, thrown, lastCall, observed>>

\* fs.ensureDir or fs.readdir rejects: the catch of line 169, then line 131
ReaddirFailAt(t) ==
    /\ t.pc = "readdir"
    /\ Step(t, Settled(t, {}, {}, {}))
    /\ UNCHANGED <<config, logQueue, isInternetConnected, handles, probes,
                   disk, now, history, thrown, lastCall, observed>>

\* lines 158-161: the file is read and parsed, the object pushed, and the
\* unlink started
PushParsedDropped(queue, content) == queue
PushParsed(queue, content) == Append(queue, JSONparse(content))
ReadFileAt(t) ==
    \E f \in t.reading :
        /\ t.pc = "files"
        /\ f \in DOMAIN disk
        /\ ~JSONparseThrows(disk[f])
        /\ logQueue' = PushParsed(logQueue, disk[f])
        /\ Step(t, Settled(t, t.logFiles, t.reading \ {f}, t.unlinking \cup {f}))
        /\ UNCHANGED <<config, isInternetConnected, handles, probes, disk, now,
                       history, thrown, lastCall, observed>>

\* line 159 throws on a file that holds no JSON: the catch runs and the
\* handler ends without reaching the unlink of line 161
ReadFileCorruptAt(t) ==
    \E f \in t.reading :
        /\ t.pc = "files"
        /\ f \in DOMAIN disk
        /\ JSONparseThrows(disk[f])
        /\ Caught
        /\ Step(t, Settled(t, t.logFiles, t.reading \ {f}, t.unlinking))
        /\ UNCHANGED <<config, isInternetConnected, handles, probes, disk,
                       thrown, lastCall, observed>>

\* line 158 rejects because another handler has unlinked the file
ReadFileMissingAt(t) ==
    \E f \in t.reading :
        /\ t.pc = "files"
        /\ f \notin DOMAIN disk
        /\ Caught
        /\ Step(t, Settled(t, t.logFiles, t.reading \ {f}, t.unlinking))
        /\ UNCHANGED <<config, isInternetConnected, handles, probes, disk,
                       thrown, lastCall, observed>>

\* line 158 rejects with an I/O error on a file that is there
ReadFileErrorAt(t) ==
    \E f \in t.reading :
        /\ t.pc = "files"
        /\ f \in DOMAIN disk
        /\ Caught
        /\ Step(t, Settled(t, t.logFiles, t.reading \ {f}, t.unlinking))
        /\ UNCHANGED <<config, isInternetConnected, handles, probes, disk,
                       thrown, lastCall, observed>>

\* line 161 succeeds
UnlinkAt(t) ==
    \E f \in t.unlinking :
        /\ t.pc = "files"
        /\ f \in DOMAIN disk
        /\ disk' = RemoveFile(disk, f)
        /\ backlogAtReconnect' = backlogAtReconnect \ {f}
        /\ Step(t, Settled(t, t.logFiles, t.reading, t.unlinking \ {f}))
        /\ UNCHANGED <<config, logQueue, isInternetConnected, handles, probes,
                       now, accepted, io, thrown, lastCall, observed>>

\* line 161 rejects because another handler has unlinked the file
UnlinkMissingAt(t) ==
    \E f \in t.unlinking :
        /\ t.pc = "files"
        /\ f \notin DOMAIN disk
        /\ Caught
        /\ Step(t, Settled(t, t.logFiles, t.reading, t.unlinking \ {f}))
        /\ UNCHANGED <<config, isInternetConnected, handles, probes, disk,
                       thrown, lastCall, observed>>

\* line 161 rejects with an I/O error and the file stays
UnlinkErrorAt(t) ==
    \E f \in t.unlinking :
        /\ t.pc = "files"
        /\ f \in DOMAIN disk
        /\ Caught
        /\ Step(t, Settled(t, t.logFiles, t.reading, t.unlinking \ {f}))
        /\ UNCHANGED <<config, isInternetConnected, handles, probes, disk,
                       thrown, lastCall, observed>>

\* --------------------------------------------------------- sendLogToServer
\* the catch of lines 180-183
RequeueDropped(queue, obj) == queue
RequeueAtHead(queue, obj) == <<obj>> \o queue
Requeue(queue, obj) == Append(queue, obj)

\* line 177 resolves
SendAt(t) ==
    /\ t.pc = "send"
    /\ ticks' = ticks (-) One(t)
    /\ sinkLog' = sinkLog \cup {[obj |-> t.obj, params |-> SinkParams(t.obj)]}
    /\ sinkErrors' = sinkErrors \ {t.obj}
    /\ UNCHANGED <<config, logQueue, flags, handles, probes, disk, now,
                   accepted, writeErrors, backlogAtReconnect, thrown, lastCall, observed>>

\* line 177 rejects
SendFailAt(t) ==
    /\ t.pc = "send"
    /\ ticks' = ticks (-) One(t)
    /\ logQueue' = Requeue(logQueue, t.obj)
    /\ sinkErrors' = sinkErrors \cup {t.obj}
    /\ UNCHANGED <<config, flags, handles, probes, disk, now, accepted,
                   sinkLog, writeErrors, backlogAtReconnect, thrown, lastCall, observed>>

\* ----------------------------------------------------------- sendLogToFile
\* line 189 resolves
WriteAt(t) ==
    /\ t.pc = "write"
    /\ ticks' = ticks (-) One(t)
    /\ disk' = WriteFile(disk, t.fileName, JSONstringify(t.obj))
    /\ UNCHANGED <<config, logQueue, flags, handles, probes, now, history,
                   thrown, lastCall, observed>>

\* line 189 rejects: the catch of line 193 reports and the event is gone
WriteFailAt(t) ==
    /\ t.pc = "write"
    /\ ticks' = ticks (-) One(t)
    /\ writeErrors' = writeErrors \cup {t.obj}
    /\ UNCHANGED <<config, logQueue, flags, handles, probes, disk, now,
                   accepted, sinkLog, sinkErrors, backlogAtReconnect, thrown, lastCall, observed>>

Readdir == \E t \in InFlight : ReaddirAt(t)
ReaddirFail == \E t \in InFlight : ReaddirFailAt(t)
ReadFile == \E t \in InFlight : ReadFileAt(t)
ReadFileCorrupt == \E t \in InFlight : ReadFileCorruptAt(t)
ReadFileMissing == \E t \in InFlight : ReadFileMissingAt(t)
ReadFileError == \E t \in InFlight : ReadFileErrorAt(t)
Unlink == \E t \in InFlight : UnlinkAt(t)
UnlinkMissing == \E t \in InFlight : UnlinkMissingAt(t)
UnlinkError == \E t \in InFlight : UnlinkErrorAt(t)
Send == \E t \in InFlight : SendAt(t)
SendFail == \E t \in InFlight : SendFailAt(t)
Write == \E t \in InFlight : WriteAt(t)
WriteFail == \E t \in InFlight : WriteFailAt(t)

\* ---------------------------------------------------------- specification
Boot(directories) ==
    /\ defaultOptions = [networkCheckInterval |-> DefaultNetworkCheckInterval,
                         logCheckInterval |-> DefaultLogCheckInterval]
    /\ options = NoOptions
    /\ logQueue = <<>>
    /\ isInternetConnected = TRUE
    /\ lastInternetConnectedFlag = FALSE
    /\ connectionCheckInterval = 0
    /\ queueCheckInterval = 0
    /\ timers = {}
    /\ probes = FALSE
    /\ ticks = EmptyBag
    /\ disk \in directories
    /\ now = 0
    /\ accepted = {}
    /\ sinkLog = {}
    /\ sinkErrors = {}
    /\ writeErrors = {}
    /\ backlogAtReconnect = {}
    /\ thrown = "none"
    /\ lastCall = Call("none", NoOptions)
    /\ lastCallback = [kind |-> "none", outcome |-> "none", turn |-> 0]
    /\ reconciliations = 0

\* The state after construction, on a directory that is empty or holds what
\* an earlier run left.
Init == Boot({Directory({}), Directory({OldFile, CorruptFile})})

\* The engine configured with the required options only: every public call,
\* both timers, and every outcome of every awaited operation.
Next ==
    \/ SetOptions \/ run \/ stop \/ Log
    \/ ProbeTick \/ ProbeDone \/ ProbeReject
    \/ DispatchTick
    \/ Readdir \/ ReaddirFail
    \/ ReadFile \/ ReadFileCorrupt \/ ReadFileMissing \/ ReadFileError
    \/ Unlink \/ UnlinkMissing \/ UnlinkError
    \/ Send \/ SendFail \/ Write \/ WriteFail

Spec == Init /\ [][Next]_vars

\* The public calls with every input, and the connectivity monitor; the
\* dispatch interval is long enough never to fire.
ApiNext ==
    \/ SetOptionsAny \/ RunTraced \/ StopTraced \/ LogTraced
    \/ ProbeTick \/ ProbeDoneTraced \/ ProbeRejectTraced

ApiSpec == Init /\ [][ApiNext]_vars

\* The engine left running (no stop) on a file system whose operations fail
\* only for the reasons the engine itself causes (a file another handler has
\* removed); the server and writeFile may fail.
DispatchTickAlone == ticks = EmptyBag /\ DispatchTick
FairNext ==
    \/ SetOptions \/ run \/ Log
    \/ ProbeTick \/ ProbeDone \/ ProbeReject
    \/ DispatchTickAlone
    \/ Readdir \/ ReadFile \/ Unlink
    \/ Send \/ SendFail \/ Write \/ WriteFail

\* every step a tick that holds the event of date d can take under FairNext
FairTickStep(d) ==
    \E t \in InFlight :
        /\ t.obj.date = d
        /\ \/ ReaddirAt(t)
           \/ ReadFileAt(t) \/ UnlinkAt(t)
           \/ SendAt(t) \/ SendFailAt(t) \/ WriteAt(t) \/ WriteFailAt(t)

\* setInterval keeps firing the dispatch callback while its interval is live,
\* and every operation a tick awaits settles.  Nothing is assumed of what the
\* probe answers: connectivity may stay as it is for ever.
Fairness ==
    /\ WF_vars(DispatchTickAlone)
    /\ \A d \in 0..MaxDate : WF_vars(FairTickStep(d))

\* The directory holds no file that is not JSON but for the one of another
\* kind.
FairInit == Boot({Directory({}), Directory({OldFile})})

FairSpec == FairInit /\ [][FairNext]_vars /\ Fairness

\* The engine with its dispatch callback observed, on a directory that
\* starts empty: overlapping ticks, failing requests and failing writes.
TickInit == Boot({Directory({})})
TickNext ==
    \/ SetOptions \/ run \/ stop \/ Log
    \/ ProbeTick \/ ProbeDone \/ ProbeReject
    \/ DispatchTickTraced
    \/ Readdir \/ ReadFile \/ Unlink
    \/ Send \/ SendFail \/ Write \/ WriteFail

TickSpec == TickInit /\ [][TickNext]_vars

\* The engine stopped and restarted at any moment, one tick at a time.
\* clearInterval cancels no promise: whatever a tick in flight awaits still
\* settles once the intervals are gone.
StopNext == FairNext \/ stop
StopFairness == \A d \in 0..MaxDate : WF_vars(FairTickStep(d))
StopSpec == FairInit /\ [][StopNext]_vars /\ StopFairness

\* ======================================================== public calls
\* Properties of setOptions, run, stop and log, examined under ApiSpec, where
\* lastCall names the call that led to the state.
Configured == options # NoOptions
Missing(nextOptions) ==
    \/ "logPath" \notin DOMAIN nextOptions \/ nextOptions["logPath"] = ""
    \/ "serverUrl" \notin DOMAIN nextOptions \/ nextOptions["serverUrl"] = ""
\* the documented defaults filled in under the fields a call supplies
OverDefaults(nextOptions) ==
    nextOptions @@ [networkCheckInterval |-> DefaultNetworkCheckInterval,
                    logCheckInterval |-> DefaultLogCheckInterval]
NeverRun == connectionCheckInterval = 0 /\ queueCheckInterval = 0

\* C7: after a successful setOptions call made before run(), the effective
\* configuration is the fields of that call over the documented defaults;
\* an optional field of an earlier call does not survive.
C7_ReplacedWholesale ==
    (NeverRun /\ lastCall.op = "setOptions" /\ ~Missing(lastCall.arg))
        => options = OverDefaults(lastCall.arg)

\* C8: at most one connectivity-probe timer and at most one dispatch timer
\* are ever active, and a run() that returns leaves exactly one of each,
\* whatever calls of run() and stop() came before.
C8_IdempotentRestart ==
    [][/\ Cardinality(ProbeTimers') <= 1
       /\ Cardinality(QueueTimers') <= 1
       /\ (RunTraced /\ thrown' = "none")
            => /\ Cardinality(ProbeTimers') = 1
               /\ Cardinality(QueueTimers') = 1
               /\ TimerIds(timers')
                    = {connectionCheckInterval', queueCheckInterval'}]_vars
C8_Restarted ==
    /\ lastCall.op = "run" /\ thrown = "none"
    /\ lastCall.live = 2
    /\ Cardinality(timers) = 2

\* C9: while setOptions has never succeeded, log() throws nothing, leaves
\* the pending queue empty and changes nothing else of the engine.
C9_LogBeforeConfiguration ==
    [][(~Configured /\ LogTraced)
        => /\ thrown' = "none"
           /\ logQueue' = <<>>
           /\ UNCHANGED <<config, logQueue, flags, handles, probes, ticks,
                          disk, now, history>>]_vars
C9_Ignored ==
    /\ ~Configured
    /\ lastCall.op = "log"
    /\ logQueue = <<>>
    /\ thrown = "none"

\* C10: setOptions without a backlog directory path or without a sink
\* address throws and leaves configuration, queue, flags and timers as they
\* were; run() without a configuration throws and starts no timer.
C10_Misconfiguration ==
    [][/\ (SetOptionsAny /\ Missing(lastCall'.arg))
            => /\ thrown' # "none"
               /\ UNCHANGED <<config, logQueue, flags, handles>>
       /\ (RunTraced /\ ~Configured)
            => /\ thrown' # "none"
               /\ timers' = {}
               /\ UNCHANGED <<config, logQueue, flags, handles>>]_vars
C10_Rejected ==
    /\ lastCall.op = "setOptions" /\ Missing(lastCall.arg)
    /\ thrown # "none"
    /\ Configured
    /\ timers # {}
    /\ logQueue # <<>>

\* ============================================================ the engine
\* Where an event can be.  An event is known by its date: log() gives every
\* accepted event a date of its own, and a copy read back from a file keeps it.
Range(q) == {q[i] : i \in 1..Len(q)}
Queued(d) == \E e \in Range(logQueue) : e.date = d
Held(d) == \E t \in InFlight : t.obj.date = d
Parsable(f) == f \in DOMAIN disk /\ IsLogFile(f) /\ ~JSONparseThrows(disk[f])
Stored(d) == \E f \in DOMAIN disk : Parsable(f) /\ JSONparse(disk[f]).date = d
Delivered(d) == \E r \in sinkLog : r.obj.date = d
WriteFailed(d) == \E e \in writeErrors : e.date = d
Running == QueueTimers # {}

\* C1: every event log() accepted is in the pending queue, held by a tick
\* in flight, stored in a backlog file or delivered to the sink, unless a
\* write of it to a backlog file failed.
C1_NoSilentDrop ==
    \A e \in accepted :
        \/ Queued(e.date) \/ Held(e.date) \/ Stored(e.date)
        \/ Delivered(e.date) \/ WriteFailed(e.date)
\* an event whose request failed is delivered later, and another waits on disk
C1_Recovered ==
    /\ writeErrors = {}
    /\ \E e \in accepted :
          Delivered(e.date) /\ ~Queued(e.date) /\ ~Held(e.date) /\ ~Stored(e.date)
    /\ \E e \in accepted :
          Stored(e.date) /\ ~Queued(e.date) /\ ~Held(e.date) /\ ~Delivered(e.date)

\* C3: when a reconciliation completes, every log file it enumerated is gone
\* from the backlog directory, whether its read and parse succeeded or not.
Completes(t) ==
    /\ t.pc = "files"
    /\ (ticks (-) One(t)) (+) One(Tick("send", t.obj, {}, {}, {}, NoFile)) = ticks'
C3_FilesRemoved ==
    [][\A t \in InFlight :
         Completes(t) => \A f \in t.logFiles : f \notin DOMAIN disk']_vars

\* ------------------------------------------- progress, under FairSpec
\* the events a producer's log() call can enqueue, and every event there is
ProducerEvents ==
    {LogObject(action, value, date) :
        action \in ProducerActions, value \in ProducerValues,
        date \in 1..MaxDate}
AllEvents == ProducerEvents \cup {OldEvent}
Idle == logQueue = <<>> /\ ticks = EmptyBag
SendFailed(d) == \E e \in sinkErrors : e.date = d
\* a parsable backlog file that was on disk when the flag last became true
ReconnectFile(d) ==
    \E f \in backlogAtReconnect : Parsable(f) /\ JSONparse(disk[f]).date = d
Reconciling == \E t \in InFlight : t.pc = "readdir"

StoredAs(e) ==
    \E f \in DOMAIN disk : Parsable(f) /\ JSONparse(disk[f]) = e
ExpectedParams(e) ==
    (IF e.value.defined THEN e.value.attrs ELSE EmptyMap)
        @@ [action |-> e.action, date |-> e.date]
DeliveredAs(e) == [obj |-> e, params |-> ExpectedParams(e)] \in sinkLog

\* C4 as claimed: when the tick of an event popped with the flag false ends
\* with the flag still false, a backlog file whose deserialized content
\* equals the event is on disk.
C4_BacklogFileWritten ==
    [][\A t \in InFlight :
         (/\ t.pc = "write" /\ t.obj \in accepted
          /\ ticks' = ticks (-) One(t)
          /\ ~isInternetConnected /\ ~isInternetConnected')
            => \E f \in DOMAIN disk' :
                  /\ IsLogFile(f)
                  /\ ~JSONparseThrows(disk'[f])
                  /\ JSONparse(disk'[f]) = t.obj]_vars
\* C4: an event a producer enqueued (its attribute values strings) while
\* the flag is false gets a backlog file whose deserialized content equals
\* it, unless the flag becomes true or the write of the file fails.
C4_StoredWhenOffline ==
    \A e \in ProducerEvents :
        (e \in Range(logQueue) /\ ~isInternetConnected /\ Running)
            ~> (StoredAs(e) \/ isInternetConnected \/ e \in writeErrors)
C4_Stored ==
    /\ ~isInternetConnected
    /\ \E e \in accepted : e.value.defined /\ StoredAs(e)

\* C5 as claimed: every request the sink accepted for an event carries the
\* event's action, the event's date and each attribute of the event.
C5_ParametersMatch ==
    \A r \in sinkLog :
        r.obj \in accepted
            => /\ r.params["action"] = r.obj.action
               /\ r.params["date"] = r.obj.date
               /\ \A k \in DOMAIN Spread(r.obj.value) :
                      r.params[k] = Spread(r.obj.value)[k]
\* C5: an event enqueued while the flag is true is delivered to the sink,
\* unless the flag becomes false or the request fails, with every attribute
\* as a parameter and with the event's action and date as parameters where
\* no attribute has that name.
C5_DeliveredWhenOnline ==
    \A e \in ProducerEvents :
        (e \in Range(logQueue) /\ isInternetConnected /\ Running)
            ~> (DeliveredAs(e) \/ ~isInternetConnected \/ e \in sinkErrors)
C5_Delivered ==
    \E e \in accepted :
        e.value.defined /\ DeliveredAs(e) /\ e \notin sinkErrors

\* C6: an event whose request fails is appended once to the tail of the
\* pending queue, behind every event enqueued in the meantime, and a later
\* tick pops it again.
C6_RetriedAtTail ==
    /\ [][\A t \in InFlight :
             (/\ t.pc = "send"
              /\ ticks' = ticks (-) One(t)
              /\ t.obj \in sinkErrors')
                => logQueue' = Append(logQueue, t.obj)]_vars
    /\ \A e \in AllEvents :
          (e \in sinkErrors /\ e \in Range(logQueue) /\ Running)
              ~> (\E t \in InFlight : t.obj = e)
C6_Requeued ==
    /\ Len(logQueue) >= 2
    /\ logQueue[Len(logQueue)] \in sinkErrors
    /\ ticks = EmptyBag

\* ================================================= stop and the callbacks
\* C11: stop() leaves no probe timer and no dispatch timer live, throws
\* nothing (also on an engine never run or already stopped), and leaves the
\* pending queue, both flags and the configuration as they were.
C11_StopCancelsBoth ==
    [][StopTraced
        => /\ timers' = {}
           /\ thrown' = "none"
           /\ UNCHANGED <<logQueue, flags, config>>]_vars
C11_Stopped ==
    /\ lastCall.op = "stop"
    /\ lastCall.live = 2
    /\ timers = {}
    /\ logQueue # <<>>
    /\ thrown = "none"

\* C12: between two consecutive dispatch ticks that read the connectivity
\* flag false, loadLogFiles is started at most once, whatever ticks overlap.
C12_OneReconciliationPerReconnect == reconciliations <= 1

\* C13: after a probe that rejected, no rejection has escaped the timer
\* callback and the cached connectivity flag is false.
ProbeFailed == lastCallback.kind = "probe" /\ lastCallback.outcome # "resolved"
C13_ProbeFailSafe ==
    ProbeFailed
        => /\ lastCallback.outcome # "unhandled rejection"
           /\ ~isInternetConnected

\* C14: a dispatch tick that finds the pending queue empty starts no
\* reconciliation, writes no file, calls no sink and leaves the reconnect
\* flag and everything else of the engine as it was, whatever the
\* connectivity flag is.
C14_IdleTickChangesNothing ==
    [][(DispatchTickTraced /\ logQueue = <<>>)
        => /\ UNCHANGED <<logQueue, ticks, disk, io, flags, config, handles,
                          probes, now, accepted, backlogAtReconnect, thrown>>
           /\ reconciliations' = reconciliations]_vars
C14_IdleWhileDisconnected ==
    /\ lastCallback.kind = "dispatch" /\ lastCallback.outcome = "idle"
    /\ ~isInternetConnected
    /\ lastInternetConnectedFlag
    /\ logQueue = <<>>
    /\ LogFiles(disk) # {}

\* C15: a dispatch tick removes one event at most, the head of the queue,
\* and routes it by the connectivity flag it reads: true, to the lane that
\* ends in one request to the sink and no file write; false, to the lane
\* that ends in one file write and no request, with the reconnect flag set
\* to false.  A tick never changes lane or event.
Pops == Len(logQueue') < Len(logQueue)
EndsReconciliation(t, u) ==
    /\ ticks' = (ticks (-) One(t)) (+) One(u)
    /\ t.pc \in {"readdir", "files"}
    /\ u.pc = "send"
C16_ReconciledBeforeDelivery ==
    [][/\ \A t \in InFlight : \A u \in BagToSet(ticks') :
            EndsReconciliation(t, u)
                => /\ u.obj = t.obj
                   /\ lastInternetConnectedFlag'
                   /\ UNCHANGED <<sinkLog, sinkErrors>>
                   /\ t.pc = "files"
                        => \/ t.reading = {} /\ Cardinality(t.unlinking) = 1
                           \/ /\ Cardinality(t.reading) = 1 /\ t.unlinking = {}
                              /\ now' = now + 1
                              /\ Unexpected \in Range(logQueue')
       /\ (lastInternetConnectedFlag' /\ ~lastInternetConnectedFlag)
            => \E t \in InFlight : \E u \in BagToSet(ticks') :
                  EndsReconciliation(t, u)
       /\ (\E u \in BagToSet(ticks') :
                u.pc = "readdir" /\ ticks' = ticks (+) One(u))
            => ~lastInternetConnectedFlag
       /\ (lastInternetConnectedFlag /\ ~lastInternetConnectedFlag')
            => Pops /\ ~isInternetConnected]_vars
\* the enumeration failed: the file is still there, nothing was reloaded or
\* reported, and the mark is cleared while the popped event awaits delivery
C16_ClearedAfterFailedEnumeration ==
    /\ lastInternetConnectedFlag
    /\ OldFile \in DOMAIN disk
    /\ now = 1 /\ logQueue = <<>>
    /\ BagCardinality(ticks) = 1
    /\ \E t \in InFlight : t.pc = "send"
    /\ sinkLog = {} /\ sinkErrors = {}

\* C17: stop() ends the dispatch interval and touches no tick in flight,
\* the queue or the directory; while the engine is stopped no tick starts
\* and no event is popped; a tick in flight when the engine is stopped still
\* ends, with its event delivered, stored in a backlog file, reported as a
\* failed write or back in the queue; and once the engine is stopped with no
\* tick in flight the directory does not change and the queue changes only
\* by a producer's log().
ProducerAppends ==
    /\ Len(logQueue') = Len(logQueue) + 1
    /\ SubSeq(logQueue', 1, Len(logQueue)) = logQueue
    /\ logQueue'[Len(logQueue')].action \in ProducerActions
C17_StopLetsTicksFinish ==
    /\ [][/\ stop => ~Running' /\ UNCHANGED <<ticks, logQueue, disk>>
          /\ ~Running
               => /\ ~Pops
                  /\ BagCardinality(ticks') <= BagCardinality(ticks)
          /\ (~Running /\ ticks = EmptyBag)
               => /\ disk' = disk
                  /\ logQueue' # logQueue => ProducerAppends]_vars
    /\ \A d \in 0..MaxDate :
          (~Running /\ Held(d))
              ~> /\ ~Held(d)
                 /\ \/ Delivered(d) \/ Stored(d)
                    \/ WriteFailed(d) \/ Queued(d)
\* stopped after a run, with one tick awaiting its write and events waiting
C17_StoppedMidTick ==
    /\ timers = {} /\ queueCheckInterval # 0
    /\ logQueue # <<>>
    /\ \E t \in InFlight : t.pc = "write"

\* C18: whenever no tick is in flight and the directory holds a backlog
\* file this engine wrote for an event it accepted, the reconnect flag is
\* false, so that the next connected tick reloads the file.
WrittenByFallback(f) ==
    /\ Parsable(f)
    /\ JSONparse(disk[f]) \in accepted
    /\ JSONparse(disk[f]).action \in ProducerActions
C18_StoredImpliesPending ==
    (ticks = EmptyBag /\ \E f \in DOMAIN disk : WrittenByFallback(f))
        => ~lastInternetConnectedFlag

\* C19: until the engine is first run connectivity is true, and the
\* reconnect flag is false from the start for as long as no tick has been
\* dispatched connected; and the first tick that pops an event with connectivity true
\* starts with the reconciliation, a request being made only by a tick that
\* is past it; stop() and run() leave both flags as they are.
NoConnectedDispatchYet ==
    /\ sinkLog = {} /\ sinkErrors = {}
    /\ \A t \in InFlight : t.pc = "write"
C19_FirstConnectedDispatchReconciles ==
    /\ [](NeverRun => isInternetConnected)
    /\ [](NoConnectedDispatchYet => ~lastInternetConnectedFlag)
    /\ [][/\ (Pops /\ isInternetConnected /\ NoConnectedDispatchYet)
               => \E u \in BagToSet(ticks') :
                     /\ ticks' = ticks (+) One(u)
                     /\ u.obj = Head(logQueue)
                     /\ u.pc = "readdir"
          /\ (sinkLog' # sinkLog \/ sinkErrors' # sinkErrors)
               => \E t \in InFlight :
                     t.pc = "send" /\ ticks' = ticks (-) One(t)
          /\ (stop \/ run) => UNCHANGED flags]_vars
\* the first connected tick has reloaded the event an earlier process left
\* and removed its file, and has not sent its own event yet
C19_ReloadedBeforeFirstDelivery ==
    /\ sinkLog = {} /\ sinkErrors = {}
    /\ \E t \in InFlight : t.pc = "send" /\ t.obj.action \in ProducerActions
    /\ OldEvent \in Range(logQueue)
    /\ OldFile \notin DOMAIN disk

\* C20: every event in the pending queue was enqueued by a producer's
\* log() call or reloaded from a backlog file; a failing per-file handler
\* adds no event of its own.
FromProducer(e) == e.action \in ProducerActions
FromBacklog(e) == e = OldEvent
C20_OnlyProducedOrReloaded ==
    \A e \in Range(logQueue) : FromProducer(e) \/ FromBacklog(e)
====
